---- MODULE Spec2Model ----
(***************************************************************************)
(* Model of rcrefcell (src/src/lib.rs): Shared<T> wraps Rc<RefCell<T>>,    *)
(* WeakShared<T> wraps Weak<RefCell<T>>.  The heap holds one block per     *)
(* allocation: the Rc counters (strong, and the internal weak counter that *)
(* includes the implicit weak reference held collectively by the strong    *)
(* handles), the RefCell borrow flag, the contained value and the memory   *)
(* state of the block.  The live Shared and WeakShared values are kept as   *)
(* bags: a handle is its pointer, and for a Shared the number of Ref and   *)
(* RefMut guards currently borrowed from it.                               *)
(***************************************************************************)
EXTENDS Integers, FiniteSets, Sequences, Bags, TLC

\* ---------------------------------------------------------------- bounds
MaxAllocs == 1          \* allocations made in a run
MaxShared == 2          \* Shared values alive at a time
MaxWeak   == 2          \* WeakShared values alive at a time
MaxGuards == 2          \* Ref / RefMut values alive at a time

Allocs    == 1..MaxAllocs
InitValues  == {0, 1}   \* the values of T a Shared is constructed with
StoreValues == {1, 2}   \* the values of T stored through a RefMut
Values      == InitValues \cup StoreValues

Dangling == 0           \* Weak::new(): a weak pointer bound to no allocation

VARIABLES
    heap,      \* [Allocs -> block]  the RcBox<RefCell<T>> of each allocation
    nextAlloc, \* number of allocations made so far (blocks are never reused)
    shared,    \* bag of the live Shared values
    weaks,     \* bag of the live WeakShared values
    written,   \* [Allocs -> Values]  value last stored under each Shared::new call
    last       \* the last operation, its receiver and its outcome

vars == <<heap, nextAlloc, shared, weaks, written, last>>

\* A handle: v is the pointer (Shared.v, WeakShared.v), fam the Shared::new call
\* the handle descends from (0 for a descendant of WeakShared::new), r and w the
\* number of Ref and RefMut guards that borrow the handle.
Handle(p, f) == [v |-> p, fam |-> f, r |-> 0, w |-> 0]
NoHandle == Handle(0, 0)

Put(B, e) == B (+) SetToBag({e})
Take(B, e) == B (-) SetToBag({e})

\* The outcome of an operation: a kind and a number.
R(kind, v) == [kind |-> kind, v |-> v]
Unit == R("unit", 0)
Op(op, h, res) == [op |-> op, h |-> h, res |-> res]
None == R("none", 0)
Some(p) == R("some", p)
Value(x) == R("value", x)
Text(x) == R("text", x)
Ptr(p) == R("ptr", p)
BorrowConflict == R("BorrowConflict", 0)
DeadReferent == R("DeadReferent", 0)
NoRef == R("NoRef", 0)

\* A block that was never allocated, one whose T was destroyed, one that was freed.
\* The value field of a block without a live T carries no information (0).
NoBlock == [strong |-> 0, weak |-> 0, flag |-> 0, val |-> 0, mem |-> "none"]
DeadBlock(w) == [strong |-> 0, weak |-> w, flag |-> 0, val |-> 0, mem |-> "dead"]
FreedBlock == [strong |-> 0, weak |-> 0, flag |-> 0, val |-> 0, mem |-> "freed"]

\* ------------------------------------------------ std::rc / std::cell steps
\* Rc::new(RefCell::new(t)): strong 1, internal weak 1, borrow flag UNUSED.
RcNew(t) == [strong |-> 1, weak |-> 1, flag |-> 0, val |-> t, mem |-> "live"]

\* Mutant of RcClone: the copy of the pointer is not counted.
RcClone_uncounted(b) == b

\* Rc::clone: one more strong reference.
RcClone(b) == [b EXCEPT !.strong = @ + 1]

\* Mutant of RcDowngrade: the new pointer is counted as a strong one.
RcDowngrade_strong(b) == [b EXCEPT !.strong = @ + 1]

\* Rc::downgrade / Weak::clone on a bound pointer: one more weak reference.
RcDowngrade(b) == [b EXCEPT !.weak = @ + 1]

\* Mutant of RcDrop: T is kept until the last weak reference is gone as well.
RcDrop_keep(b) ==
    LET s1 == b.strong - 1 IN
    IF s1 # 0 THEN [b EXCEPT !.strong = s1]
    ELSE IF b.weak - 1 = 0 THEN FreedBlock
         ELSE [b EXCEPT !.strong = 0, !.weak = @ - 1]

\* Mutant of RcDrop: the block is freed together with T, whatever the weak count.
RcDrop_free(b) ==
    LET s1 == b.strong - 1 IN
    IF s1 # 0 THEN [b EXCEPT !.strong = s1] ELSE FreedBlock

\* Drop of an Rc: the value is destroyed when strong reaches 0, and then the
\* implicit weak reference is released; the block is freed when weak reaches 0.
RcDrop(b) ==
    LET s1 == b.strong - 1 IN
    IF s1 # 0 THEN [b EXCEPT !.strong = s1]
    ELSE LET w1 == b.weak - 1 IN
         IF w1 = 0 THEN FreedBlock ELSE DeadBlock(w1)

\* Drop of a bound Weak: the block is freed when weak reaches 0.
WeakDrop(b) ==
    LET w1 == b.weak - 1 IN
    IF w1 = 0 THEN FreedBlock ELSE [b EXCEPT !.weak = w1]

\* Mutant of CanUpgrade: the upgrade only asks whether the block still exists.
CanUpgrade_block(p) == p # Dangling /\ heap[p].mem \in {"live", "dead"}

\* Weak::upgrade succeeds when the pointer is bound and strong is not 0.
CanUpgrade(p) == p # Dangling /\ heap[p].strong # 0

\* Mutant of RcWeakCount: the implicit weak reference is reported as well.
RcWeakCount_raw(b) == b.weak

\* Rc::strong_count, Rc::weak_count (without the implicit weak reference).
RcStrongCount(b) == b.strong
RcWeakCount(b) == b.weak - 1

\* Mutant of WeakWeakCount: the strong count is not consulted.
WeakWeakCount_raw(p) == IF p = Dangling THEN 0 ELSE heap[p].weak - 1

\* Mutant of WeakWeakCount: on a dangling pointer the calling handle is counted
\* although it points at no block.
WeakWeakCount_self(p) ==
    IF p = Dangling THEN 1
    ELSE IF heap[p].strong > 0 THEN heap[p].weak - 1 ELSE 0

\* Weak::strong_count and Weak::weak_count of a pointer p.
WeakStrongCount(p) == IF p = Dangling THEN 0 ELSE heap[p].strong
WeakWeakCount(p) ==
    IF p = Dangling THEN 0
    ELSE IF heap[p].strong > 0 THEN heap[p].weak - 1 ELSE 0

\* Mutant of CanBorrow: a read is refused whenever any guard is outstanding.
CanBorrow_unused(b) == b.flag = 0
\* Mutant of CanBorrowMut: a write is refused only when a RefMut is outstanding.
CanBorrowMut_readers(b) == b.flag >= 0

\* RefCell::borrow / borrow_mut / drop of Ref / drop of RefMut on the flag.
CanBorrow(b) == b.flag >= 0
CanBorrowMut(b) == b.flag = 0
RefDrop(b, kind) == [b EXCEPT !.flag = IF kind = "w" THEN @ + 1 ELSE @ - 1]

\* ---------------------------------------------------------- the handles
\* The states of an allocation: T live; T destroyed and the block kept.
Live(a) == heap[a].mem = "live"
Dead(a) == heap[a].mem = "dead"
\* A weak handle that points at a block.
Bound(w) == w.v # Dangling

SharedOn(a) == {h \in DOMAIN shared : h.v = a}
WeaksOn(p) == {h \in DOMAIN weaks : h.v = p}
RECURSIVE Sum(_, _)
Sum(f, S) == IF S = {} THEN 0
             ELSE LET x == CHOOSE x \in S : TRUE IN f[x] + Sum(f, S \ {x})
NumShared(a) == Sum(shared, SharedOn(a))
NumWeak(p) == Sum(weaks, WeaksOn(p))
NumRef(a) == Sum([h \in SharedOn(a) |-> shared[h] * h.r], SharedOn(a))
NumRefMut(a) == Sum([h \in SharedOn(a) |-> shared[h] * h.w], SharedOn(a))
NumGuards == Sum([a \in Allocs |-> NumRef(a) + NumRefMut(a)], Allocs)

Init ==
    /\ heap = [a \in Allocs |-> NoBlock]
    /\ nextAlloc = 0
    /\ shared = EmptyBag
    /\ weaks = EmptyBag
    /\ written = [a \in Allocs |-> 0]
    /\ last = Op("init", NoHandle, Unit)

\* ------------------------------------------------------------ Shared<T>
\* Shared::new(t)
new(t) ==
    /\ nextAlloc < MaxAllocs
    /\ BagCardinality(shared) < MaxShared
    /\ LET a == nextAlloc + 1 IN
       /\ heap' = [heap EXCEPT ![a] = RcNew(t)]
       /\ nextAlloc' = a
       /\ shared' = Put(shared, Handle(a, a))
       /\ written' = [written EXCEPT ![a] = t]
       /\ last' = Op("new", Handle(a, a), Unit)
    /\ UNCHANGED weaks

\* Shared::new_from(rc): wraps an Rc the caller already owns; no count changes.
new_from(p, f) == Put(shared, Handle(p, f))

\* Shared::borrow(): RefCell::borrow panics when a RefMut is outstanding.
borrow(h) ==
    /\ h \in DOMAIN shared
    /\ IF CanBorrow(heap[h.v])
       THEN /\ NumGuards < MaxGuards
            /\ heap' = [heap EXCEPT ![h.v].flag = @ + 1]
            /\ shared' = Put(Take(shared, h), [h EXCEPT !.r = @ + 1])
            /\ last' = Op("borrow", h, R("guard", h.v))
       ELSE /\ UNCHANGED <<heap, shared>>
            /\ last' = Op("borrow", h, BorrowConflict)
    /\ UNCHANGED <<nextAlloc, weaks, written>>

\* Shared::borrow_mut(): RefCell::borrow_mut panics when any guard is outstanding.
borrow_mut(h) ==
    /\ h \in DOMAIN shared
    /\ IF CanBorrowMut(heap[h.v])
       THEN /\ NumGuards < MaxGuards
            /\ heap' = [heap EXCEPT ![h.v].flag = 0 - 1]
            /\ shared' = Put(Take(shared, h), [h EXCEPT !.w = @ + 1])
            /\ last' = Op("borrow_mut", h, R("guard", h.v))
       ELSE /\ UNCHANGED <<heap, shared>>
            /\ last' = Op("borrow_mut", h, BorrowConflict)
    /\ UNCHANGED <<nextAlloc, weaks, written>>

\* Handle h holds a guard of the kind: "r" a Ref, "w" a RefMut.
HoldsGuard(h, kind) ==
    /\ h \in DOMAIN shared
    /\ IF kind = "w" THEN h.w > 0 ELSE h.r > 0

\* Reading through a guard borrowed from h: *shared.borrow(), *shared.borrow_mut().
guard_read(h, kind) ==
    /\ HoldsGuard(h, kind)
    /\ last' = Op("guard_read", h, Value(heap[h.v].val))
    /\ UNCHANGED <<heap, nextAlloc, shared, weaks, written>>

\* Mutant of guard_write: copy on write, the store goes to a private copy of T
\* when other Shared values exist.
guard_write_cow(h, t) ==
    /\ HoldsGuard(h, "w")
    /\ heap' = IF heap[h.v].strong > 1 THEN heap
               ELSE [heap EXCEPT ![h.v].val = t]
    /\ written' = [written EXCEPT ![h.fam] = t]
    /\ last' = Op("guard_write", h, Value(t))
    /\ UNCHANGED <<nextAlloc, shared, weaks>>

\* Writing through a RefMut borrowed from h: *shared.borrow_mut() = t.
guard_write(h, t) ==
    /\ HoldsGuard(h, "w")
    /\ heap' = [heap EXCEPT ![h.v].val = t]
    /\ written' = [written EXCEPT ![h.fam] = t]
    /\ last' = Op("guard_write", h, Value(t))
    /\ UNCHANGED <<nextAlloc, shared, weaks>>

\* A Ref or RefMut borrowed from h goes out of scope.
guard_drop(h, kind) ==
    /\ HoldsGuard(h, kind)
    /\ heap' = [heap EXCEPT ![h.v] = RefDrop(@, kind)]
    /\ shared' = Put(Take(shared, h),
                     IF kind = "w" THEN [h EXCEPT !.w = @ - 1]
                                   ELSE [h EXCEPT !.r = @ - 1])
    /\ last' = Op(IF kind = "w" THEN "drop_refmut" ELSE "drop_ref", h, Unit)
    /\ UNCHANGED <<nextAlloc, weaks, written>>

\* Shared::as_ptr(): RefCell::as_ptr, the address of T, with no borrow check.
\* The address is modelled by the allocation's index.
as_ptr(h) == h.v

\* Shared::clone()
clone(h) ==
    /\ h \in DOMAIN shared
    /\ BagCardinality(shared) < MaxShared
    /\ heap' = [heap EXCEPT ![h.v] = RcClone(@)]
    /\ shared' = Put(shared, Handle(h.v, h.fam))
    /\ last' = Op("clone", h, Unit)
    /\ UNCHANGED <<nextAlloc, weaks, written>>

\* WeakShared::new_from(weak): wraps a Weak the caller already owns.
weak_new_from(p, f) == Put(weaks, Handle(p, f))

\* Mutant of downgrade: the value is moved out of the cell into the observer,
\* and the cell is left with the default value.
downgrade_take(h) ==
    /\ h \in DOMAIN shared
    /\ BagCardinality(weaks) < MaxWeak
    /\ heap' = [heap EXCEPT ![h.v] = [RcDowngrade(@) EXCEPT !.val = 0]]
    /\ weaks' = weak_new_from(h.v, h.fam)
    /\ last' = Op("downgrade", h, Unit)
    /\ UNCHANGED <<nextAlloc, shared, written>>

\* Shared::downgrade()
downgrade(h) ==
    /\ h \in DOMAIN shared
    /\ BagCardinality(weaks) < MaxWeak
    /\ heap' = [heap EXCEPT ![h.v] = RcDowngrade(@)]
    /\ weaks' = weak_new_from(h.v, h.fam)
    /\ last' = Op("downgrade", h, Unit)
    /\ UNCHANGED <<nextAlloc, shared, written>>

\* Shared::strong_count()
strong_count(h) == RcStrongCount(heap[h.v])

\* Shared::weak_count()
weak_count(h) == RcWeakCount(heap[h.v])

\* What a read of T through the raw pointer of allocation a can yield.  The
\* read makes a shared reference without consulting the borrow flag; while a
\* RefMut is outstanding that reference aliases a mutable one, which is
\* undefined behaviour, so any value may be observed.
RawRead(a) == IF heap[a].flag < 0 THEN Values ELSE {heap[a].val}

\* <Shared as Deref>::deref(): as_ptr().as_ref().unwrap().  The set of outcomes.
deref(h) == {Value(x) : x \in RawRead(as_ptr(h))}

\* <Shared as Display>::fmt and <Shared as Debug>::fmt, which have the same body:
\* write!(f, .., self.deref()).  The set of outcomes; the text of a value is
\* modelled by the value.
fmt(h) == {Text(r.v) : r \in deref(h)}

\* Mutant of drop_shared: a handle may go out of scope under its own guards.
drop_shared_any(h) ==
    /\ h \in DOMAIN shared
    /\ heap' = [heap EXCEPT ![h.v] = RcDrop(@)]
    /\ shared' = Take(shared, h)
    /\ written' = IF heap'[h.v].mem = "live" THEN written
                  ELSE [written EXCEPT ![h.fam] = 0]
    /\ last' = Op("drop_shared", h, Unit)
    /\ UNCHANGED <<nextAlloc, weaks>>

\* A Shared goes out of scope.  A guard borrows the handle it came from, so a
\* handle with an outstanding guard cannot be dropped.
drop_shared(h) ==
    /\ h \in DOMAIN shared
    /\ h.r = 0 /\ h.w = 0
    /\ heap' = [heap EXCEPT ![h.v] = RcDrop(@)]
    /\ shared' = Take(shared, h)
    /\ written' = IF heap'[h.v].mem = "live" THEN written
                  ELSE [written EXCEPT ![h.fam] = 0]
    /\ last' = Op("drop_shared", h, Unit)
    /\ UNCHANGED <<nextAlloc, weaks>>

\* ---------------------------------------------------------- WeakShared<T>
\* WeakShared::new(): Weak::new(), bound to no allocation.
weak_new ==
    /\ BagCardinality(weaks) < MaxWeak
    /\ weaks' = Put(weaks, Handle(Dangling, 0))
    /\ last' = Op("weak_new", Handle(Dangling, 0), Unit)
    /\ UNCHANGED <<heap, nextAlloc, shared, written>>

\* WeakShared::clone(): Weak::clone leaves a dangling pointer dangling.
weak_clone(w) ==
    /\ w \in DOMAIN weaks
    /\ BagCardinality(weaks) < MaxWeak
    /\ heap' = IF w.v = Dangling THEN heap
               ELSE [heap EXCEPT ![w.v] = RcDowngrade(@)]
    /\ weaks' = Put(weaks, Handle(w.v, w.fam))
    /\ last' = Op("weak_clone", w, Unit)
    /\ UNCHANGED <<nextAlloc, shared, written>>

\* Mutant of upgrade: a failed upgrade releases the stale reference and leaves
\* the handle dangling.
upgrade_reset(w) ==
    /\ w \in DOMAIN weaks
    /\ IF CanUpgrade(w.v)
       THEN /\ BagCardinality(shared) < MaxShared
            /\ heap' = [heap EXCEPT ![w.v] = RcClone(@)]
            /\ shared' = new_from(w.v, w.fam)
            /\ weaks' = weaks
            /\ last' = Op("upgrade", w, Some(w.v))
       ELSE /\ heap' = IF Bound(w) THEN [heap EXCEPT ![w.v] = WeakDrop(@)] ELSE heap
            /\ weaks' = Put(Take(weaks, w), Handle(Dangling, 0))
            /\ shared' = shared
            /\ last' = Op("upgrade", w, None)
    /\ UNCHANGED <<nextAlloc, written>>

\* WeakShared::upgrade()
upgrade(w) ==
    /\ w \in DOMAIN weaks
    /\ IF CanUpgrade(w.v)
       THEN /\ BagCardinality(shared) < MaxShared
            /\ heap' = [heap EXCEPT ![w.v] = RcClone(@)]
            /\ shared' = new_from(w.v, w.fam)
            /\ last' = Op("upgrade", w, Some(w.v))
       ELSE /\ UNCHANGED <<heap, shared>>
            /\ last' = Op("upgrade", w, None)
    /\ UNCHANGED <<nextAlloc, weaks, written>>

\* WeakShared::strong_count()
weak_strong_count(w) == WeakStrongCount(w.v)

\* Mutant of weak_weak_count: the internal weak counter of the block is reported.
weak_weak_count_block(w) == IF Bound(w) THEN heap[w.v].weak ELSE 0

\* WeakShared::weak_count()
weak_weak_count(w) == WeakWeakCount(w.v)

\* Mutant of AfterTempUpgrade: the temporary Shared is leaked, not dropped.
AfterTempUpgrade_leak(p) == RcClone(heap[p])

\* The block of allocation p after self.upgrade().unwrap().as_ptr() has run:
\* the upgrade made a temporary Shared, which is dropped when as_ptr returns.
AfterTempUpgrade(p) == RcDrop(RcClone(heap[p]))

\* Mutant of weak_as_ptr: the address is taken from the Weak itself
\* (Weak::as_ptr), without an upgrade.
weak_as_ptr_unchecked(w) ==
    /\ w \in DOMAIN weaks
    /\ last' = Op("weak_as_ptr", w, Ptr(w.v))
    /\ UNCHANGED <<heap, nextAlloc, shared, weaks, written>>

\* WeakShared::as_ptr(): upgrade().unwrap() panics when the upgrade fails.
weak_as_ptr(w) ==
    /\ w \in DOMAIN weaks
    /\ IF CanUpgrade(w.v)
       THEN /\ heap' = [heap EXCEPT ![w.v] = AfterTempUpgrade(w.v)]
            /\ last' = Op("weak_as_ptr", w, Ptr(w.v))
       ELSE /\ UNCHANGED heap
            /\ last' = Op("weak_as_ptr", w, DeadReferent)
    /\ UNCHANGED <<nextAlloc, shared, weaks, written>>

\* <WeakShared as Deref>::deref(): self.as_ptr().as_ref().unwrap()
weak_deref(w) ==
    /\ w \in DOMAIN weaks
    /\ IF CanUpgrade(w.v)
       THEN /\ heap' = [heap EXCEPT ![w.v] = AfterTempUpgrade(w.v)]
            /\ \E x \in RawRead(w.v) : last' = Op("weak_deref", w, Value(x))
       ELSE /\ UNCHANGED heap
            /\ last' = Op("weak_deref", w, DeadReferent)
    /\ UNCHANGED <<nextAlloc, shared, weaks, written>>

\* <WeakShared as Display>::fmt and <WeakShared as Debug>::fmt, the same body:
\* if self.weak_count() > 0 { write!(f, .., self.deref()) } else { "No ref" }
weak_fmt(w) ==
    /\ w \in DOMAIN weaks
    /\ IF weak_weak_count(w) > 0
       THEN IF CanUpgrade(w.v)
            THEN /\ heap' = [heap EXCEPT ![w.v] = AfterTempUpgrade(w.v)]
                 /\ \E x \in RawRead(w.v) : last' = Op("weak_fmt", w, Text(x))
            ELSE /\ UNCHANGED heap
                 /\ last' = Op("weak_fmt", w, DeadReferent)
       ELSE /\ UNCHANGED heap
            /\ last' = Op("weak_fmt", w, NoRef)
    /\ UNCHANGED <<nextAlloc, shared, weaks, written>>

\* A WeakShared goes out of scope; dropping a dangling Weak does nothing.
drop_weak(w) ==
    /\ w \in DOMAIN weaks
    /\ heap' = IF w.v = Dangling THEN heap ELSE [heap EXCEPT ![w.v] = WeakDrop(@)]
    /\ weaks' = Take(weaks, w)
    /\ last' = Op("drop_weak", w, Unit)
    /\ UNCHANGED <<nextAlloc, shared, written>>

Kinds == {"r", "w"}

Next ==
    \/ \E t \in InitValues : new(t)
    \/ \E h \in DOMAIN shared : borrow(h)
    \/ \E h \in DOMAIN shared : borrow_mut(h)
    \/ \E h \in DOMAIN shared, kind \in Kinds : guard_read(h, kind)
    \/ \E h \in DOMAIN shared, t \in StoreValues : guard_write(h, t)
    \/ \E h \in DOMAIN shared, kind \in Kinds : guard_drop(h, kind)
    \/ \E h \in DOMAIN shared : clone(h)
    \/ \E h \in DOMAIN shared : downgrade(h)
    \/ \E h \in DOMAIN shared : drop_shared(h)
    \/ weak_new
    \/ \E w \in DOMAIN weaks : weak_clone(w)
    \/ \E w \in DOMAIN weaks : upgrade(w)
    \/ \E w \in DOMAIN weaks : weak_as_ptr(w)
    \/ \E w \in DOMAIN weaks : weak_deref(w)
    \/ \E w \in DOMAIN weaks : weak_fmt(w)
    \/ \E w \in DOMAIN weaks : drop_weak(w)

Spec == Init /\ [][Next]_vars

\* The calls of tests::downgrade_and_upgrade, in any order and number: a Shared
\* is constructed, downgraded, the WeakShared upgraded, and the value read
\* through a Ref; handles and guards go out of scope.  Nothing is stored, so
\* written keeps the constructed value, and every Shared besides the
\* constructed one comes from an upgrade.
NextRoundTrip ==
    \/ \E t \in InitValues : new(t)
    \/ \E h \in DOMAIN shared : downgrade(h)
    \/ \E w \in DOMAIN weaks : upgrade(w)
    \/ \E h \in DOMAIN shared : borrow(h)
    \/ \E h \in DOMAIN shared : guard_read(h, "r")
    \/ \E h \in DOMAIN shared : guard_drop(h, "r")
    \/ \E h \in DOMAIN shared : drop_shared(h)
    \/ \E w \in DOMAIN weaks : drop_weak(w)

SpecRoundTrip == Init /\ [][NextRoundTrip]_vars

\* ================================================================ claims

\* C1: upgrade() returns a present Shared if and only if the strong count of
\* the allocation is above 0 when it is called; when it does, the strong
\* count grows by exactly 1 and there is one more Shared of that allocation.
C1_UpgradeIffStrong ==
    [][\A w \in DOMAIN weaks : (last'.op = "upgrade" /\ last'.h = w) =>
        /\ (last'.res.kind = "some") <=> (Bound(w) /\ heap[w.v].strong > 0)
        /\ last'.res.kind # "some" => last'.res = None
        /\ last'.res.kind = "some" =>
              /\ last'.res = Some(w.v)
              /\ heap'[w.v].strong = heap[w.v].strong + 1
              /\ NumShared(w.v)' = NumShared(w.v) + 1
              /\ \A a \in Allocs \ {w.v} : NumShared(a)' = NumShared(a)
    ]_vars

C1_Witness ==
    /\ last.op = "upgrade"
    /\ last.res.kind = "some"
    /\ heap[last.h.v].strong = 2

\* C2: T is live exactly while the strong count is above 0, and T is destroyed
\* exactly in the step that drops a Shared while the strong count is 1,
\* however many WeakShared exist.
C2_LiveIffStrong ==
    /\ [](\A a \in Allocs : Live(a) <=> heap[a].strong > 0)
    /\ [][\A a \in Allocs :
            (Live(a) /\ ~Live(a)') <=>
            (last'.op = "drop_shared" /\ last'.h.v = a /\ heap[a].strong = 1)
       ]_vars

C2_Witness ==
    /\ last.op = "drop_shared"
    /\ Dead(last.h.v)
    /\ NumWeak(last.h.v) = 2

\* C3: once the strong count of an allocation has reached 0 it stays 0, and
\* every upgrade() of a WeakShared of that allocation returns absent.
C3_DeadStaysDead ==
    [][\A a \in Allocs :
          heap[a].mem \in {"dead", "freed"} =>
             /\ heap'[a].strong = 0
             /\ ~Live(a)'
             /\ NumShared(a)' = 0
             /\ (last'.op = "upgrade" /\ last'.h.v = a) => last'.res = None
    ]_vars

C3_Witness ==
    /\ last.op = "upgrade"
    /\ last.res = None
    /\ Bound(last.h)
    /\ Dead(last.h.v)
    /\ NumWeak(last.h.v) = 2

\* C4: on every allocation the outstanding guards are one RefMut and no Ref,
\* or no RefMut and any number of Ref.
C4_GuardExclusion ==
    \A a \in Allocs :
        \/ NumRefMut(a) = 1 /\ NumRef(a) = 0
        \/ NumRefMut(a) = 0

C4_Witness ==
    \E a \in Allocs :
        /\ NumRef(a) = 2
        /\ NumRefMut(a) = 0
        /\ \E h \in SharedOn(a) : h.r = 1 /\ shared[h] = 2
        /\ last.op = "borrow"
        /\ last.res.kind = "guard"

\* C5: borrow_mut() succeeds exactly when no guard is outstanding on the
\* allocation, borrow() exactly when no RefMut is outstanding on it; a call
\* that does not succeed ends in BorrowConflict and changes nothing.
C5_BorrowOutcome ==
    [][\A a \in Allocs :
       /\ (last'.op = "borrow_mut" /\ last'.h.v = a) =>
            /\ (last'.res.kind = "guard") <=> (NumRef(a) + NumRefMut(a) = 0)
            /\ last'.res.kind = "guard" => NumRefMut(a)' = 1
            /\ last'.res.kind # "guard" =>
                  last'.res = BorrowConflict /\ UNCHANGED <<heap, shared, weaks>>
       /\ (last'.op = "borrow" /\ last'.h.v = a) =>
            /\ (last'.res.kind = "guard") <=> (NumRefMut(a) = 0)
            /\ last'.res.kind = "guard" => NumRef(a)' = NumRef(a) + 1
            /\ last'.res.kind # "guard" =>
                  last'.res = BorrowConflict /\ UNCHANGED <<heap, shared, weaks>>
    ]_vars

C5_Witness ==
    /\ last.op = "borrow_mut"
    /\ last.res = BorrowConflict
    /\ NumRef(last.h.v) = 1
    /\ NumRefMut(last.h.v) = 0

\* C6: after a value is stored through a RefMut of one Shared, a read through
\* a guard of any Shared of the same lineage (a clone, or an upgrade of a
\* downgrade) yields that value.
C6_WriteSeenByAll ==
    /\ last.op = "guard_read" => last.res = Value(written[last.h.fam])
    /\ last.op = "guard_write" =>
          \A h \in DOMAIN shared :
              h.fam = last.h.fam => heap[h.v].val = last.res.v

C6_Witness ==
    /\ last.op = "guard_read"
    /\ last.res = Value(2)
    /\ last.h.r = 1
    /\ NumShared(last.h.v) = 2

\* C7: strong_count() of every Shared and every bound WeakShared equals the
\* number of Shared values that exist for the allocation.
C7_StrongCountsHandles ==
    /\ \A h \in DOMAIN shared : strong_count(h) = NumShared(h.v)
    /\ \A w \in DOMAIN weaks : Bound(w) => weak_strong_count(w) = NumShared(w.v)

C7_Witness ==
    /\ \E h \in DOMAIN shared : strong_count(h) = 2
    /\ \E w \in DOMAIN weaks : weak_strong_count(w) = 2
    /\ last.op = "weak_as_ptr"

\* C8 as stated: weak_count() of a bound WeakShared is the number of WeakShared
\* values of the allocation, also when the allocation is dead, where it is at
\* least 1 and strong_count() is 0.
C8_Original ==
    \A w \in DOMAIN weaks : Bound(w) =>
        /\ weak_weak_count(w) = NumWeak(w.v)
        /\ heap[w.v].strong = 0 =>
              weak_weak_count(w) >= 1 /\ weak_strong_count(w) = 0

\* C8 as amended: weak_count() of a bound WeakShared is the number of
\* WeakShared values of the allocation while the allocation is live; when the
\* allocation is dead, weak_count() and strong_count() both report 0.
C8_WeakCountLiveOnly ==
    \A w \in DOMAIN weaks : Bound(w) =>
        IF Live(w.v)
        THEN weak_weak_count(w) = NumWeak(w.v) /\ weak_weak_count(w) >= 1
        ELSE weak_weak_count(w) = 0 /\ weak_strong_count(w) = 0

C8_Witness ==
    \E w \in DOMAIN weaks :
        /\ Bound(w)
        /\ Dead(w.v)
        /\ NumWeak(w.v) = 2
        /\ weak_weak_count(w) = 0

\* C9 as stated: formatting a WeakShared prints "No ref" only for a handle
\* that was never bound; for a handle bound to a dead allocation it ends in
\* DeadReferent.
C9_Original ==
    last.op = "weak_fmt" =>
        /\ (last.res = NoRef) <=> ~Bound(last.h)
        /\ (Bound(last.h) /\ ~Live(last.h.v)) => last.res = DeadReferent

\* C9 as amended: formatting a WeakShared prints "No ref" for a handle that
\* was never bound and for a handle bound to a dead allocation; it prints the
\* text of T exactly when the allocation is live, and never ends in
\* DeadReferent.
C9_DeadPrintsNoRef ==
    last.op = "weak_fmt" =>
        IF Bound(last.h) /\ Live(last.h.v)
        THEN last.res.kind = "text"
        ELSE last.res = NoRef

C9_Witness ==
    /\ last.op = "weak_fmt"
    /\ last.res = NoRef
    /\ Bound(last.h)
    /\ Dead(last.h.v)

\* C10 as stated: formatting a Shared while a RefMut of the same allocation
\* is outstanding ends in BorrowConflict and produces no text.
C10_Original ==
    \A h \in DOMAIN shared : NumRefMut(h.v) > 0 => fmt(h) = {BorrowConflict}
\* C11: clone() has no failing outcome; it raises the strong count by exactly
\* 1, adds one Shared of the same allocation, and leaves the weak count, the
\* borrow flag and the value as they were; afterwards every Shared of the
\* allocation, the original and the clone, reports the same strong_count().
C11_CloneAddsOneStrong ==
    [][\A h \in DOMAIN shared : (last'.op = "clone" /\ last'.h = h) =>
        /\ last'.res = Unit
        /\ heap'[h.v] = [heap[h.v] EXCEPT !.strong = @ + 1]
        /\ \A a \in Allocs \ {h.v} : heap'[a] = heap[a]
        /\ NumShared(h.v)' = NumShared(h.v) + 1
        /\ weaks' = weaks
        /\ \A g \in DOMAIN shared' :
              g.v = h.v => RcStrongCount(heap'[g.v]) = strong_count(h) + 1
        /\ {h, Handle(h.v, h.fam)} \subseteq DOMAIN shared'
    ]_vars

C11_Witness ==
    /\ last.op = "clone"
    /\ strong_count(last.h) = 2
    /\ weak_count(last.h) = 1
    /\ heap[last.h.v].val = 2
    /\ last.h.w = 1
\* C12: while the allocation is live, downgrade() and WeakShared::clone() each
\* raise the weak count by exactly 1 and leave the strong count unchanged;
\* making or dropping a WeakShared never changes whether T is live.
C12_WeakOpsCountOne ==
    [][/\ \A h \in DOMAIN shared : (last'.op = "downgrade" /\ last'.h = h) =>
            /\ RcWeakCount(heap'[h.v]) = weak_count(h) + 1
            /\ RcStrongCount(heap'[h.v]) = strong_count(h)
            /\ NumWeak(h.v)' = NumWeak(h.v) + 1
            /\ shared' = shared
       /\ \A w \in DOMAIN weaks :
            (last'.op = "weak_clone" /\ last'.h = w /\ Bound(w) /\ Live(w.v)) =>
            /\ RcWeakCount(heap'[w.v]) = weak_weak_count(w) + 1
            /\ RcStrongCount(heap'[w.v]) = weak_strong_count(w)
            /\ NumWeak(w.v)' = NumWeak(w.v) + 1
            /\ shared' = shared
       /\ last'.op \in {"downgrade", "weak_new", "weak_clone", "drop_weak"} =>
            \A a \in Allocs :
               /\ Live(a)' <=> Live(a)
               /\ heap'[a].strong = heap[a].strong
               /\ heap'[a].val = heap[a].val
    ]_vars

\* s.downgrade() followed by clone() of the result, for a single Shared s.
C12_Witness ==
    /\ last.op = "weak_clone"
    /\ Bound(last.h)
    /\ weak_weak_count(last.h) = 2
    /\ weak_strong_count(last.h) = 1
    /\ NumShared(last.h.v) = 1
\* C13: a WeakShared made by WeakShared::new(), and every clone of it, reports
\* weak_count() 0 and strong_count() 0 and gets absent from upgrade(), whatever
\* happens to the allocations; making, cloning or dropping such a handle
\* changes no block and no Shared.
C13_EmptyWeakStaysEmpty ==
    /\ [](\A w \in DOMAIN weaks : ~Bound(w) =>
             /\ weak_weak_count(w) = 0
             /\ weak_strong_count(w) = 0
             /\ ~CanUpgrade(w.v))
    /\ []((last.op = "upgrade" /\ ~Bound(last.h)) => last.res = None)
    /\ [][(last'.op \in {"weak_new", "weak_clone", "drop_weak", "upgrade"}
             /\ last'.h.v = Dangling) =>
            /\ heap' = heap
            /\ shared' = shared
            /\ \A a \in Allocs : NumWeak(a)' = NumWeak(a)
            /\ last'.op = "weak_clone" =>
                  NumWeak(Dangling)' = NumWeak(Dangling) + 1
       ]_vars

C13_Witness ==
    /\ last.op = "upgrade"
    /\ ~Bound(last.h)
    /\ last.res = None
    /\ NumWeak(Dangling) = 2
    /\ \E a \in Allocs : Live(a) /\ heap[a].strong = 2
\* C14: WeakShared::as_ptr() ends in DeadReferent whenever the strong count is
\* 0 (a dead referent, or a handle that was never bound), and returns the
\* address of T, the one Shared::as_ptr() returns for that allocation,
\* whenever the strong count is above 0.
C14_WeakAsPtr ==
    last.op = "weak_as_ptr" =>
        IF weak_strong_count(last.h) > 0
        THEN /\ last.res.kind = "ptr"
             /\ SharedOn(last.h.v) # {}
             /\ \A h \in SharedOn(last.h.v) : last.res = Ptr(as_ptr(h))
        ELSE last.res = DeadReferent

C14_Witness ==
    /\ last.op = "weak_as_ptr"
    /\ last.res = DeadReferent
    /\ Bound(last.h)
    /\ Dead(last.h.v)
    /\ NumWeak(last.h.v) = 1
\* C15: round trip.  For every value a Shared is constructed with, after a
\* downgrade and an upgrade of the WeakShared while the constructed Shared is
\* held, a read through the upgraded Shared yields the constructed value.
\* Checked under SpecRoundTrip.
C15_RoundTrip ==
    last.op = "guard_read" =>
        /\ last.res.kind = "value"
        /\ last.res.v \in InitValues
        /\ last.res.v = written[last.h.fam]
        /\ \A h \in SharedOn(last.h.v) : heap[h.v].val = last.res.v

\* Both the constructed and the upgraded Shared hold a Ref and one was read.
C15_Witness ==
    /\ last.op = "guard_read"
    /\ last.res = Value(1)
    /\ NumShared(last.h.v) = 2
    /\ NumRef(last.h.v) = 2
    /\ \A h \in SharedOn(last.h.v) : h.r = 1
    /\ NumWeak(last.h.v) = 1
\* C16: for every constructed value, the Shared that Shared::new has just
\* returned reports strong_count() 1 and weak_count() 0, can be borrowed, and
\* holds the constructed value.
C16_FreshShared ==
    last.op = "new" =>
        /\ last.h \in DOMAIN shared
        /\ strong_count(last.h) = 1
        /\ weak_count(last.h) = 0
        /\ NumShared(last.h.v) = 1 /\ NumWeak(last.h.v) = 0
        /\ CanBorrow(heap[last.h.v]) /\ CanBorrowMut(heap[last.h.v])
        /\ heap[last.h.v].val = written[last.h.fam]
        /\ heap[last.h.v].val \in InitValues
        /\ deref(last.h) = {Value(written[last.h.fam])}

C16_Witness ==
    /\ last.op = "new"
    /\ heap[last.h.v].val = 1
    /\ NumWeak(Dangling) = 1
\* C17 as stated: while a RefMut of an allocation is outstanding, no operation
\* of Shared or WeakShared reads T: dereferencing or formatting a Shared of
\* the allocation yields no value and no text, and neither does
\* dereferencing or formatting a WeakShared of it.
C17_Original ==
    \A a \in Allocs : NumRefMut(a) > 0 =>
        /\ \A h \in SharedOn(a) :
              \A r \in deref(h) \cup fmt(h) : r.kind \notin {"value", "text"}
        /\ (last.op \in {"weak_deref", "weak_fmt"} /\ last.h.v = a) =>
              last.res.kind \notin {"value", "text"}
\* C18: the block of an allocation is freed exactly when no Shared and no
\* WeakShared of it exists any more; every WeakShared that is bound points at
\* a block that has not been freed, also when T is dead; a freed block never
\* changes again.
C18_BlockOutlivesWeaks ==
    /\ [](\A a \in Allocs : heap[a].mem # "none" =>
             ((heap[a].mem = "freed") <=> (NumShared(a) = 0 /\ NumWeak(a) = 0)))
    /\ [](\A w \in DOMAIN weaks : Bound(w) => heap[w.v].mem \in {"live", "dead"})
    /\ [](\A h \in DOMAIN shared : heap[h.v].mem = "live")
    /\ [][\A a \in Allocs : heap[a].mem = "freed" => heap'[a] = heap[a]]_vars

\* The last WeakShared of a dead allocation has just been dropped.
C18_Witness ==
    /\ last.op = "drop_weak"
    /\ Bound(last.h)
    /\ heap[last.h.v].mem = "freed"
\* C19: a guard keeps its allocation live.  An allocation with an outstanding
\* Ref or RefMut is live with a strong count of at least 1, it is still so
\* after any step, and a Shared that goes out of scope holds no guard.
C19_GuardKeepsLive ==
    /\ [](\A a \in Allocs :
             NumRef(a) + NumRefMut(a) > 0 => (Live(a) /\ heap[a].strong >= 1))
    /\ [][/\ \A a \in Allocs :
                NumRef(a) + NumRefMut(a) > 0 => (Live(a)' /\ heap'[a].strong >= 1)
          /\ last'.op = "drop_shared" => (last'.h.r = 0 /\ last'.h.w = 0)]_vars

\* A clone has been dropped while a guard of another handle is outstanding.
C19_Witness ==
    /\ last.op = "drop_shared"
    /\ NumRef(last.h.v) + NumRefMut(last.h.v) > 0
    /\ Live(last.h.v)

\* C20: an upgrade() that returns None, and a WeakShared::as_ptr() that
\* returns a pointer, leave every block (strong count, weak count, liveness)
\* and every handle as they were.
C20_NoLastingHandle ==
    [][/\ (last'.op = "upgrade" /\ last'.res = None) =>
              (heap' = heap /\ shared' = shared /\ weaks' = weaks)
       /\ (last'.op = "weak_as_ptr" /\ last'.res.kind = "ptr") =>
              (heap' = heap /\ shared' = shared /\ weaks' = weaks)]_vars

\* as_ptr() has returned a pointer through the only WeakShared of an allocation
\* that has one Shared.
C20_Witness ==
    /\ last.op = "weak_as_ptr"
    /\ last.res.kind = "ptr"
    /\ heap[last.h.v].strong = 1
    /\ NumWeak(last.h.v) = 1
====
